---- MODULE Spec2Model ----
(***************************************************************************)
(* Model of the Clinicore dashboard (src/Frontend/dashboard.js).           *)
(*                                                                         *)
(* The page is single-threaded and event-driven.  Every async function     *)
(* invocation is a task whose pc names the await it is suspended at; one   *)
(* action is the run of a handler or continuation from one await to the    *)
(* next.  A store query answers with the window as it stood when the query *)
(* was issued; the answer may be delivered any time later.  The collection *)
(* only grows, so a task keeps the length the collection had (asOf) for    *)
(* the answer in flight, and the answer is that prefix's window.           *)
(*                                                                         *)
(* Numbers that the source keeps as floats in [0,1] (probability,          *)
(* confidence) are kept here as integer percents.                          *)
(***************************************************************************)
EXTENDS Integers, Sequences, FiniteSets

\* ------------------------------------------------------------------ bounds
MaxSubmits    == 1   \* form submissions in one page life
MaxTicks      == 1   \* 5-minute timer ticks in one page life
MaxAuthEvents == 2   \* auth-state notifications carrying a user
MaxFaults     == 1   \* calls that fail or are answered with an error body
MaxInFlight   == 3   \* async invocations in flight at the same time
\* The window of refreshStats and generateModelMetricsFromRecords, limit(200)
\* in the source, scaled down so that a full window fits the bounds.
DashboardLimit == 12
\* Clock ticks in one UTC calendar day: createdAt and the clock are kept in
\* ticks, so that records of one window fall on the same and on different days.
DayLength == 4

\* --------------------------------------------------------------- constants
AnalyticsLimit == 1000   \* loadAnalyticsCharts window
MinLabeled     == 10     \* metrics need y_true.length > 10
RecentShown    == 30     \* records listed by refreshStats
TopShown       == 8      \* labels kept for the top-diagnoses chart
Threshold      == 50     \* prob >= 0.5, in percent

Min(a, b) == IF a < b THEN a ELSE b

\* ------------------------------------------------------------- JS values
Undefined == [t |-> "undefined", v |-> 0]
Num(n)    == [t |-> "number", v |-> n]
IsNumber(x) == x.t = "number"

\* What postJSON hands back for /predict-disease: the parsed body, whatever
\* it is.  A service error body has no top3.
DiseaseOk(d, c) == [error |-> FALSE, top3 |-> <<[disease |-> d, confidence |-> c]>>]
DiseaseError    == [error |-> TRUE, top3 |-> <<>>]
NoDisease       == [error |-> FALSE, top3 |-> <<>>]

\* What postJSON hands back for /predict-outcome.
OutcomeOk(r, p) == [error |-> FALSE, risk |-> r, probability |-> Num(p)]
OutcomeError    == [error |-> TRUE, risk |-> "", probability |-> Undefined]
NoOutcome       == [error |-> FALSE, risk |-> "", probability |-> Undefined]

DiseaseBodies == {DiseaseOk("Flu", 80), DiseaseError}
OutcomeBodies == {OutcomeOk("High Risk", 70), OutcomeError}

\* The payload the submit handler builds from the form.
Payload == [PatientName |-> "Ann", Age |-> 45, Fever |-> "Yes"]

\* A record read back without a features field.
NoFeatures == [PatientName |-> "", Age |-> 0, Fever |-> ""]

\* ------------------------------------------------------------- the store
\* The object the submit handler adds to the diagnosis collection.  The
\* handler writes prediction = {diseaseRes, outcomeRes}; it never writes a
\* disease_top field, which reads back as absent ("").  createdAt is
\* FieldValue.serverTimestamp(): the time of the write, which data() hands
\* back as null for as long as the server has not acknowledged the write.
ServerTimestamp(at) == [seconds |-> at, pending |-> FALSE]

NewRecord(payload, diseaseRes, outcomeRes, at, uid) ==
    [ patient_name |-> payload.PatientName,
      age          |-> payload.Age,
      features     |-> payload,
      prediction   |-> [diseaseRes |-> diseaseRes, outcomeRes |-> outcomeRes,
                        disease_top |-> ""],
      createdAt    |-> ServerTimestamp(at),
      createdBy    |-> uid ]

\* Records left by earlier submissions: both calls answered, or the outcome
\* call answered with an error body.
LabeledRecord(at)   == NewRecord(Payload, DiseaseOk("Flu", 80), OutcomeOk("High Risk", 70), at, "u1")
UnlabeledRecord(at) == NewRecord(Payload, DiseaseOk("Flu", 80), OutcomeError, at, "u1")

EarlierStore(nLabeled, nUnlabeled) ==
    [i \in 1..(nLabeled + nUnlabeled) |->
        IF i <= nLabeled THEN LabeledRecord(i) ELSE UnlabeledRecord(i)]

InitialStores ==
    { EarlierStore(MinLabeled, 0),
      EarlierStore(MinLabeled + 1, DashboardLimit - MinLabeled - 1) }

\* The same query ordered 'asc': the oldest records.
Window_Ascending(s, limit) ==
    [i \in 1..Min(limit, Len(s)) |-> s[i]]

\* orderBy('createdAt','desc').limit(n).get() then docs.map(d => d.data())
Window(s, limit) ==
    [i \in 1..Min(limit, Len(s)) |-> s[Len(s) + 1 - i]]

\* ------------------------------------------------- refreshStats, computed
\* (r.prediction && r.prediction.disease_top) || 'Unknown'
DashLabel(r) ==
    IF r.prediction.disease_top # "" THEN r.prediction.disease_top ELSE "Unknown"

\* The same loop leaving out the records that carry no disease_top.
Dist_SkipUnlabeled(docs) ==
    [lab \in {docs[i].prediction.disease_top : i \in 1..Len(docs)} \ {""} |->
        Cardinality({i \in 1..Len(docs) : docs[i].prediction.disease_top = lab})]

\* dist[lab] = (dist[lab] || 0) + 1 over the window
Dist(docs) ==
    [lab \in {DashLabel(docs[i]) : i \in 1..Len(docs)} |->
        Cardinality({i \in 1..Len(docs) : DashLabel(docs[i]) = lab})]

\* docs.slice(0,30).map(...): name, the text shown for the diagnosis, the time
\* new Date(createdAt.seconds*1000), or Date.now() when createdAt is null
RecordLine(r, now) ==
    [ name |-> IF r.patient_name # "" THEN r.patient_name ELSE "Unknown",
      dx   |-> IF r.prediction.disease_top # "" THEN r.prediction.disease_top
               ELSE "undefined",
      at   |-> IF r.createdAt.pending THEN now ELSE r.createdAt.seconds ]

RecordsList(docs, now) ==
    [i \in 1..Min(RecentShown, Len(docs)) |-> RecordLine(docs[i], now)]

NotPainted ==
    [painted |-> FALSE, totalRecords |-> 0, dist |-> <<>>, uniqueDx |-> 0,
     recordsList |-> <<>>]

\* What refreshStats writes into the page from a window.
DashboardOf(docs, now) ==
    [painted      |-> TRUE,
     totalRecords |-> Len(docs),
     dist         |-> Dist(docs),
     uniqueDx     |-> Cardinality(DOMAIN Dist(docs)),
     recordsList  |-> RecordsList(docs, now)]

\* ------------------------------ generateModelMetricsFromRecords, computed
\* A record yields a pair when it has features and a prediction whose
\* outcomeRes.probability is a number.
HasPair(r) ==
    r.features # NoFeatures /\ IsNumber(r.prediction.outcomeRes.probability)

\* The same comparing with the name of the category, not the value stored.
PairLabel_CategoryName(r) ==
    IF r.prediction.outcomeRes.risk = "HighRisk" THEN 1 ELSE 0

\* r.prediction.outcomeRes.risk === 'High Risk' ? 1 : 0
PairLabel(r) == IF r.prediction.outcomeRes.risk = "High Risk" THEN 1 ELSE 0
PairProb(r)  == r.prediction.outcomeRes.probability.v

\* The same with > in place of >=.
PairPred_Strict(r) == IF PairProb(r) > Threshold THEN 1 ELSE 0

\* prob >= 0.5 ? 1 : 0
PairPred(r) == IF PairProb(r) >= Threshold THEN 1 ELSE 0

Labeled(docs) == SelectSeq(docs, HasPair)

ExtractPairs(docs) ==
    LET lab == Labeled(docs) IN
    [ y_true |-> [i \in 1..Len(lab) |-> PairLabel(lab[i])],
      y_prob |-> [i \in 1..Len(lab) |-> PairProb(lab[i])],
      y_pred |-> [i \in 1..Len(lab) |-> PairPred(lab[i])] ]

\* The answer of /confusion-matrix to {y_true, y_pred}: the counts indexed
\* [actual][predicted].  The service is not part of the dashboard's source.
ConfusionMatrix(y_true, y_pred) ==
    [a \in 0..1 |-> [p \in 0..1 |->
        Cardinality({i \in 1..Len(y_true) : y_true[i] = a /\ y_pred[i] = p})]]

\* renderConfMatrix(cm): the rows Actual 0, Actual 1 under Pred 0, Pred 1
ConfMatrixTable(cm) ==
    << <<cm[0][0], cm[0][1]>>, <<cm[1][0], cm[1][1]>> >>

\* The same test with >= in place of >.
EnoughLabeled_AtLeast(docs) == Len(ExtractPairs(docs).y_true) >= MinLabeled

\* if (y_true.length > 10)
EnoughLabeled(docs) == Len(ExtractPairs(docs).y_true) > MinLabeled

\* ------------------------------------------ loadAnalyticsCharts, computed
\* riskSum over the records whose outcome probability is a number
RECURSIVE SumRange(_, _, _)
SumRange(docs, lo, hi) ==
    IF lo > hi THEN 0
    ELSE IF lo = hi
         THEN (IF IsNumber(docs[lo].prediction.outcomeRes.probability)
               THEN docs[lo].prediction.outcomeRes.probability.v ELSE 0)
         ELSE SumRange(docs, lo, (lo + hi) \div 2)
              + SumRange(docs, (lo + hi) \div 2 + 1, hi)

SumProb(docs) == SumRange(docs, 1, Len(docs))

RiskCount(docs) ==
    Cardinality({i \in 1..Len(docs) :
                    IsNumber(docs[i].prediction.outcomeRes.probability)})

\* avgRisk !== null ? (avgRisk*100).toFixed(1) + '%' : 'N/A'; in tenths of a
\* percent, -1 for N/A.
AvgRiskText(docs) ==
    IF RiskCount(docs) = 0 THEN -1
    ELSE (2 * 10 * SumProb(docs) + RiskCount(docs)) \div (2 * RiskCount(docs))

\* Object.keys(o).sort(): the keys in ascending order.  The keys are UTC days;
\* toISOString().slice(0,10) writes a day as YYYY-MM-DD, whose string order is
\* the order of the days.
SortAsc(S) ==
    [k \in 1..Cardinality(S) |->
        CHOOSE x \in S : Cardinality({y \in S : y < x}) = k - 1]

\* r.createdAt.toDate(), or new Date() when createdAt is null
CreatedOrNow(r, now) ==
    IF r.createdAt.pending THEN now ELSE r.createdAt.seconds

\* ts.toISOString().slice(0,10): the UTC calendar day of an instant
IsoDay(ts) == ts \div DayLength

\* countsByDay[day] = (countsByDay[day] || 0) + 1 over the window
CountsByDay(docs, now) ==
    [day \in {IsoDay(CreatedOrNow(docs[i], now)) : i \in 1..Len(docs)} |->
        Cardinality({i \in 1..Len(docs) :
                        IsoDay(CreatedOrNow(docs[i], now)) = day})]

\* days = Object.keys(countsByDay).sort(); counts = days.map(d => countsByDay[d])
TimeSeries(docs, now) ==
    LET byDay == CountsByDay(docs, now)
        days  == SortAsc(DOMAIN byDay)
    IN  [days |-> days, counts |-> [k \in 1..Len(days) |-> byDay[days[k]]]]

\* top3[0].disease, else prediction.disease_top, else 'Unknown'
DxLabel(r) ==
    IF Len(r.prediction.diseaseRes.top3) > 0
        THEN r.prediction.diseaseRes.top3[1].disease
    ELSE IF r.prediction.disease_top # "" THEN r.prediction.disease_top
    ELSE "Unknown"

\* dxCount[top] = (dxCount[top] || 0) + 1 over the window
DxCount(docs) ==
    [lab \in {DxLabel(docs[i]) : i \in 1..Len(docs)} |->
        Cardinality({i \in 1..Len(docs) : DxLabel(docs[i]) = lab})]

\* Object.keys(dxCount): the labels in the order they were first inserted,
\* which is the order of their first record in the window.
DxKeys(docs) ==
    LET first == SortAsc({i \in 1..Len(docs) :
                    \A j \in 1..(i - 1) : DxLabel(docs[j]) # DxLabel(docs[i])})
    IN  [k \in 1..Len(first) |-> DxLabel(docs[first[k]])]

\* keys.sort((a,b) => dxCount[b]-dxCount[a]): descending count; the sort is
\* stable, so labels with equal counts keep the order they have in keys.
SortByCount(keys, cnt) ==
    LET Before(a, b) == \/ cnt[keys[a]] > cnt[keys[b]]
                        \/ cnt[keys[a]] = cnt[keys[b]] /\ a < b
    IN  [p \in 1..Len(keys) |->
            keys[CHOOSE b \in 1..Len(keys) :
                    Cardinality({a \in 1..Len(keys) : Before(a, b)}) = p - 1]]

\* dxLabels = Object.keys(dxCount).sort(...).slice(0,8); dxValues follow them
TopDx(docs) ==
    LET sorted == SortByCount(DxKeys(docs), DxCount(docs))
        labels == SubSeq(sorted, 1, Min(TopShown, Len(sorted)))
    IN  [dxLabels |-> labels,
         dxValues |-> [k \in 1..Len(labels) |-> DxCount(docs)[labels[k]]]]

AnalyticsNotPainted ==
    [painted |-> FALSE, avgRisk |-> -1, records |-> 0,
     days |-> <<>>, counts |-> <<>>, dxLabels |-> <<>>, dxValues |-> <<>>]

\* What loadAnalyticsCharts writes into the page from a window: avgRisk, the
\* records-per-day chart and the top-diagnoses chart.
AnalyticsOf(docs, now) ==
    [painted  |-> TRUE,
     avgRisk  |-> AvgRiskText(docs),
     records  |-> Len(docs),
     days     |-> TimeSeries(docs, now).days,
     counts   |-> TimeSeries(docs, now).counts,
     dxLabels |-> TopDx(docs).dxLabels,
     dxValues |-> TopDx(docs).dxValues]

\* ------------------------------------------------------------- the charts
Views == {"diag", "feat", "roc", "recordsTime", "topDx"}

\* handle is the variable holding a view's chart (diagChart, featChart,
\* rocChart, window._recordsTimeChart, window._topDxChart): "null" before the
\* first render, then the chart last assigned, "live" or "destroyed".  live
\* counts the Chart instances of the view that were created and not
\* destroyed; created counts the instances ever created.
NoChart == [handle |-> "null", live |-> 0, created |-> 0]

\* chart.destroy()
DestroyChart(c) ==
    IF c.handle = "live" THEN [c EXCEPT !.handle = "destroyed", !.live = @ - 1]
    ELSE c

\* new Chart(ctx, ...)
NewChart(c) == [handle |-> "live", live |-> c.live + 1, created |-> c.created + 1]

\* The same without the destroy: the handle is overwritten.
ReplaceChart_NoDestroy(c) == NewChart(c)

\* if (slot) slot.destroy(); slot = new Chart(...)
ReplaceChart(c) ==
    NewChart(IF c.handle # "null" THEN DestroyChart(c) ELSE c)

\* --------------------------------------------------------------- state
VARIABLES
    store,          \* the diagnosis collection, oldest record first
    profile,        \* users/{uid}: "admin", "doctor", or "missing" (no document)
    authUser,       \* firebase.auth().currentUser: "" for null
    page,           \* "open", or "redirected" once login.html is being loaded
    tickListeners,  \* auth listeners registered by the setInterval callback
    tasks,          \* the async invocations in flight, grouped by kind
    dashboard,      \* totalRecords, the distribution, uniqueDx, recordsList
    charts,         \* per view: the slot and the number of live Chart instances
    confMatrix,     \* confMatrixTable: 0 when empty, else the pairs it was built from
    rocPairs,       \* the pairs the displayed ROC was drawn from, 0 when none
    analyticsCard,  \* analyticsCard.style.display: "" until set
    analytics,      \* avgRisk and what the admin charts were drawn from
    submits,        \* submit events so far
    authEvents,     \* auth notifications so far that carried a user
    faults,         \* calls so far that failed or were answered with an error body
    console,        \* what the last step wrote to the console, Quiet if nothing
    now,            \* the browser's clock (Date.now()), in ticks
    chat            \* the chat modal: whether it exists, its send listeners,
                    \* and the bubbles of chatWindow, oldest first

vars == <<store, profile, authUser, page, tickListeners, tasks, dashboard,
          charts, confMatrix, rocPairs, analyticsCard, analytics,
          submits, authEvents, faults, console, now, chat>>

User == "u1"

\* The page before the chat is opened: no chatModal element.
\* `sent` counts the calls of sendChatMessage that got past the blank check;
\* it gives every message the number its bubbles are tagged with.
NoChat == [modal |-> "absent", window |-> <<>>, sent |-> 0]

\* A task is one invocation of the submit handler ("submit"), of the load
\* handler's auth listener ("signin"), or of showAnalyticsIfAdmin
\* ("analytics"), suspended at the await its pc names.  asOf is the length
\* the collection had when the query in flight was issued; rec is the
\* createdAt of the record the submission stored, 0 before.
Task(kind, pc) ==
    [kind |-> kind, pc |-> pc, diseaseRes |-> NoDisease, outcomeRes |-> NoOutcome,
     uid |-> "", rec |-> 0, asOf |-> 0]

TaskIds == 1..Len(tasks)

\* The order of tasks carries no meaning (any task in flight may be the next
\* to be resumed): a started task is filed after the tasks of its own kind,
\* submit handlers first, then auth listeners, then showAnalyticsIfAdmin.
Rank(kind) == CASE kind = "submit" -> 1 [] kind = "signin" -> 2 [] OTHER -> 3

Started(ts, t) ==
    LET k == Cardinality({i \in 1..Len(ts) : Rank(ts[i].kind) <= Rank(t.kind)})
    IN  SubSeq(ts, 1, k) \o <<t>> \o SubSeq(ts, k + 1, Len(ts))

Without(ts, i) == [k \in 1..(Len(ts) - 1) |-> IF k < i THEN ts[k] ELSE ts[k + 1]]

\* The answer of the task's query in flight.
Docs(t, limit) == Window(SubSeq(store, 1, t.asOf), limit)

\* Console lines: the source's messages, and the browser's report of a
\* rejection that nothing handles.
Quiet == [line |-> "", task |-> ""]
Line(text, t) == [line |-> text, task |-> t.kind]
Unhandled(t) == Line("Uncaught (in promise)", t)

Init ==
    /\ store \in InitialStores
    /\ profile \in {"admin", "doctor", "missing"}
    /\ authUser = ""
    /\ page = "open"
    /\ tickListeners = 0
    /\ tasks = <<>>
    /\ dashboard = NotPainted
    /\ charts = [v \in Views |-> NoChart]
    /\ confMatrix = 0
    /\ rocPairs = 0
    /\ analyticsCard = ""
    /\ analytics = AnalyticsNotPainted
    /\ submits = 0
    /\ authEvents = 0
    /\ faults = 0
    /\ console = Quiet
    /\ now = Len(store) + 1
    /\ chat = NoChat

\* The task returned.
Return(i) == tasks' = Without(tasks, i)

\* A call fails, or is answered with an error body.
Fault == /\ faults < MaxFaults
         /\ faults' = faults + 1

\* The awaited call failed and nothing handles the rejection: the task ends.
Reject(i) == /\ Fault
             /\ tasks' = Without(tasks, i)
             /\ console' = Unhandled(tasks[i])

\* The awaited call was answered.
Answered == /\ faults' = faults
            /\ console' = Quiet

\* The awaited call failed inside a try/catch that logs the message.
Caught(text, t) == /\ Fault
                   /\ console' = Line(text, t)

\* The task goes on to its next await.
Continue(i, t) == tasks' = [tasks EXCEPT ![i] = t]

\* refreshStats() up to its await: the query is issued.
CallRefreshStats(t) == [t EXCEPT !.pc = "refreshStats", !.asOf = Len(store)]

\* loadFeatureImportance() up to its await: the fetch is issued.
CallLoadFeatureImportance(t) == [t EXCEPT !.pc = "loadFeatureImportance", !.asOf = 0]

\* generateModelMetricsFromRecords() up to its await: the query is issued.
CallGenerateModelMetrics(t) == [t EXCEPT !.pc = "metricsQuery", !.asOf = Len(store)]

\* ------------------------------------------------- the submit handler
\* predictForm 'submit': build the payload, post it to /predict-disease.
Submit ==
    /\ page = "open"
    /\ submits < MaxSubmits
    /\ Len(tasks) + 1 <= MaxInFlight
    /\ submits' = submits + 1
    /\ tasks' = Started(tasks, Task("submit", "predictDisease"))
    /\ console' = Quiet
    /\ UNCHANGED <<chat, now, store, profile, authUser, page, tickListeners, dashboard,
                   charts, confMatrix, rocPairs, analyticsCard, analytics,
                   authEvents, faults>>

\* await postJSON('/predict-disease'): fetch rejects (or the body is not
\* JSON), or the body parses, a result or an error body alike.
DiseaseResolved(i) ==
    /\ page = "open"
    /\ tasks[i].pc = "predictDisease"
    /\ \/ Reject(i)
       \/ \E r \in DiseaseBodies :
             /\ Continue(i, [tasks[i] EXCEPT !.pc = "predictOutcome", !.diseaseRes = r])
             /\ IF r.error THEN Fault ELSE faults' = faults
             /\ console' = Quiet
    /\ UNCHANGED <<chat, now, store, profile, authUser, page, tickListeners, dashboard,
                   charts, confMatrix, rocPairs, analyticsCard, analytics,
                   submits, authEvents>>

\* await postJSON('/predict-outcome'), the alert, and the call of
\* db.collection('diagnosis').add with the current user.
OutcomeResolved(i) ==
    /\ page = "open"
    /\ tasks[i].pc = "predictOutcome"
    /\ \/ Reject(i)
       \/ \E r \in OutcomeBodies :
             /\ Continue(i, [tasks[i] EXCEPT !.pc = "add", !.outcomeRes = r,
                                             !.uid = authUser])
             /\ IF r.error THEN Fault ELSE faults' = faults
             /\ console' = Quiet
    /\ UNCHANGED <<chat, now, store, profile, authUser, page, tickListeners, dashboard,
                   charts, confMatrix, rocPairs, analyticsCard, analytics,
                   submits, authEvents>>

\* The record add() writes, stamped by the server.
SubmittedRecord(t) ==
    NewRecord(Payload, t.diseaseRes, t.outcomeRes, Len(store) + 1, t.uid)

\* The same writing with set() to one fixed document: the record takes the
\* place of the newest one.
AddResolved_Overwrite(i) ==
    /\ page = "open"
    /\ tasks[i].pc = "add"
    /\ \/ /\ store' = [store EXCEPT ![Len(store)] = SubmittedRecord(tasks[i])]
          /\ Continue(i, [Task("submit", "logMetrics") EXCEPT !.rec = Len(store)])
          /\ Answered
       \/ /\ store' = store
          /\ Reject(i)
    /\ UNCHANGED <<chat, now, profile, authUser, page, tickListeners, dashboard,
                   charts, confMatrix, rocPairs, analyticsCard, analytics,
                   submits, authEvents>>

\* await add(...): the record is stored and /log-metrics is posted, or the
\* write is refused and the handler ends.
AddResolved(i) ==
    /\ page = "open"
    /\ tasks[i].pc = "add"
    /\ \/ /\ store' = Append(store, SubmittedRecord(tasks[i]))
          /\ Continue(i, [Task("submit", "logMetrics") EXCEPT !.rec = Len(store) + 1])
          /\ Answered
       \/ /\ store' = store
          /\ Reject(i)
    /\ UNCHANGED <<chat, now, profile, authUser, page, tickListeners, dashboard,
                   charts, confMatrix, rocPairs, analyticsCard, analytics,
                   submits, authEvents>>

\* The same without the try/catch: a failure ends the handler.
LogMetricsResolved_Fatal(i) ==
    /\ page = "open"
    /\ tasks[i].pc = "logMetrics"
    /\ \/ Answered /\ Continue(i, CallRefreshStats(tasks[i]))
       \/ Reject(i)
    /\ UNCHANGED <<chat, now, store, profile, authUser, page, tickListeners, dashboard,
                   charts, confMatrix, rocPairs, analyticsCard, analytics,
                   submits, authEvents>>

\* await postJSON('/log-metrics') inside try/catch: answered or failed,
\* refreshStats() is called next.
LogMetricsResolved(i) ==
    /\ page = "open"
    /\ tasks[i].pc = "logMetrics"
    /\ \/ Answered
       \/ Caught("metrics log failed", tasks[i])
    /\ Continue(i, CallRefreshStats(tasks[i]))
    /\ UNCHANGED <<chat, now, store, profile, authUser, page, tickListeners, dashboard,
                   charts, confMatrix, rocPairs, analyticsCard, analytics,
                   submits, authEvents>>

\* ------------------------------------- refreshStats, loadFeatureImportance
\* await ...limit(200).get() inside try/catch.  On an answer the counters,
\* the distribution chart and the list are written; a failure is logged.
\* The caller then calls loadFeatureImportance().
RefreshStatsResolved(i) ==
    /\ page = "open"
    /\ tasks[i].pc = "refreshStats"
    /\ \/ /\ dashboard' = DashboardOf(Docs(tasks[i], DashboardLimit), now)
          /\ charts' = [charts EXCEPT !["diag"] = ReplaceChart(@)]
          /\ Answered
       \/ /\ UNCHANGED <<dashboard, charts>>
          /\ Caught("refreshStats error", tasks[i])
    /\ Continue(i, CallLoadFeatureImportance(tasks[i]))
    /\ UNCHANGED <<chat, now, store, profile, authUser, page, tickListeners,
                   confMatrix, rocPairs, analyticsCard, analytics,
                   submits, authEvents>>

\* await fetch('/feature-importance') inside try/catch.  The submit handler
\* returns after it; the auth listener calls generateModelMetricsFromRecords().
FeatureImportanceResolved(i) ==
    /\ page = "open"
    /\ tasks[i].pc = "loadFeatureImportance"
    /\ \/ /\ charts' = [charts EXCEPT !["feat"] = ReplaceChart(@)]
          /\ Answered
       \/ /\ charts' = charts
          /\ Caught("Feature importance load error", tasks[i])
    /\ IF tasks[i].kind = "signin"
       THEN Continue(i, CallGenerateModelMetrics(tasks[i]))
       ELSE Return(i)
    /\ UNCHANGED <<chat, now, store, profile, authUser, page, tickListeners, dashboard,
                   confMatrix, rocPairs, analyticsCard, analytics,
                   submits, authEvents>>

\* ------------------------------------- generateModelMetricsFromRecords
NumPairs(docs) == Len(ExtractPairs(docs).y_true)

\* await ...limit(200).get(), with no try/catch around it or around its
\* caller.  The pairs are extracted; more than 10 posts them to /roc-data,
\* otherwise a warning is logged and the function returns.
MetricsQueryResolved(i) ==
    /\ page = "open"
    /\ tasks[i].pc = "metricsQuery"
    /\ \/ Reject(i)
       \/ /\ EnoughLabeled(Docs(tasks[i], DashboardLimit))
          /\ Continue(i, [tasks[i] EXCEPT !.pc = "rocData"])
          /\ Answered
       \/ /\ ~EnoughLabeled(Docs(tasks[i], DashboardLimit))
          /\ Return(i)
          /\ faults' = faults
          /\ console' = Line("Not enough labeled records", tasks[i])
    /\ UNCHANGED <<chat, now, store, profile, authUser, page, tickListeners, dashboard,
                   charts, confMatrix, rocPairs, analyticsCard, analytics,
                   submits, authEvents>>

\* await postJSON('/roc-data'); plotROC; post to /confusion-matrix.
RocResolved(i) ==
    /\ page = "open"
    /\ tasks[i].pc = "rocData"
    /\ \/ /\ charts' = [charts EXCEPT !["roc"] = ReplaceChart(@)]
          /\ rocPairs' = NumPairs(Docs(tasks[i], DashboardLimit))
          /\ Continue(i, [tasks[i] EXCEPT !.pc = "confusionMatrix"])
          /\ Answered
       \/ /\ UNCHANGED <<charts, rocPairs>>
          /\ Reject(i)
    /\ UNCHANGED <<chat, now, store, profile, authUser, page, tickListeners, dashboard,
                   confMatrix, analyticsCard, analytics, submits, authEvents>>

\* await postJSON('/confusion-matrix'); renderConfMatrix.
ConfMatrixResolved(i) ==
    /\ page = "open"
    /\ tasks[i].pc = "confusionMatrix"
    /\ \/ /\ confMatrix' = NumPairs(Docs(tasks[i], DashboardLimit))
          /\ Return(i)
          /\ Answered
       \/ /\ confMatrix' = confMatrix
          /\ Reject(i)
    /\ UNCHANGED <<chat, now, store, profile, authUser, page, tickListeners, dashboard,
                   charts, rocPairs, analyticsCard, analytics, submits, authEvents>>

\* ------------------------------------------------ showAnalyticsIfAdmin
\* showAnalyticsIfAdmin() up to its await: the users/{uid} lookup is issued.
CallShowAnalyticsIfAdmin == Task("analytics", "roleLookup")

\* The same gate failing open: a lookup that threw counts as admin.
RoleOf_FailOpen(ok) ==
    IF ok THEN (IF profile # "missing" THEN profile ELSE "") ELSE "admin"

\* The role the gate works with: the document's role, null ("") when the
\* document does not exist or the lookup threw.
RoleOf(ok) == IF ok /\ profile # "missing" THEN profile ELSE ""

\* await users/{uid}.get() inside try/catch, then the gate: an admin gets the
\* card shown and loadAnalyticsCharts() called, which issues the 1000-record
\* query; anyone else gets the card hidden.
RoleLookupResolved(i) ==
    /\ page = "open"
    /\ tasks[i].pc = "roleLookup"
    /\ \E ok \in BOOLEAN :
          /\ IF ok THEN Answered ELSE Caught("Failed to read user role", tasks[i])
          /\ IF RoleOf(ok) = "admin"
             THEN /\ analyticsCard' = "block"
                  /\ Continue(i, [tasks[i] EXCEPT !.pc = "loadAnalytics",
                                                  !.asOf = Len(store)])
             ELSE /\ analyticsCard' = "none"
                  /\ Return(i)
    /\ UNCHANGED <<chat, now, store, profile, authUser, page, tickListeners, dashboard,
                   charts, confMatrix, rocPairs, analytics, submits, authEvents>>

\* await ...limit(1000).get() in loadAnalyticsCharts, with no try/catch
\* around it or around its callers; then avgRisk and the two charts.
AnalyticsQueryResolved(i) ==
    /\ page = "open"
    /\ tasks[i].pc = "loadAnalytics"
    /\ \/ /\ analytics' = AnalyticsOf(Docs(tasks[i], AnalyticsLimit), now)
          /\ charts' = [charts EXCEPT !["recordsTime"] = ReplaceChart(@),
                                      !["topDx"] = ReplaceChart(@)]
          /\ Return(i)
          /\ Answered
       \/ /\ UNCHANGED <<analytics, charts>>
          /\ Reject(i)
    /\ UNCHANGED <<chat, now, store, profile, authUser, page, tickListeners, dashboard,
                   confMatrix, rocPairs, analyticsCard, submits, authEvents>>

\* ------------------------------------------------- auth state and timer
\* The module registers two auth listeners: the one of line 525 and the one
\* the load handler adds.
ModuleListeners == 2

AuthListeners == ModuleListeners + tickListeners

\* The auth state is reported with a user: every registered listener runs.
\* The line-525 listener and each listener a timer tick added call
\* showAnalyticsIfAdmin(); the load handler's listener sets the user name and
\* calls refreshStats().
SignedIn ==
    /\ page = "open"
    /\ authEvents < MaxAuthEvents
    /\ Len(tasks) + AuthListeners <= MaxInFlight
    /\ authEvents' = authEvents + 1
    /\ authUser' = User
    /\ tasks' = Started(tasks, CallRefreshStats(Task("signin", "start")))
                   \o [k \in 1..(1 + tickListeners) |-> CallShowAnalyticsIfAdmin]
    /\ console' = Quiet
    /\ UNCHANGED <<chat, now, store, profile, page, tickListeners, dashboard, charts,
                   confMatrix, rocPairs, analyticsCard, analytics, submits,
                   faults>>

\* The auth state is reported without a user: the load handler's listener
\* sends the browser to login.html; the other listeners return.
SignedOut ==
    /\ page = "open"
    /\ authUser' = ""
    /\ page' = "redirected"
    /\ console' = Quiet
    /\ UNCHANGED <<chat, now, store, profile, tickListeners, tasks, dashboard, charts,
                   confMatrix, rocPairs, analyticsCard, analytics,
                   submits, authEvents, faults>>

\* The setInterval callback: one more auth listener is registered, and is
\* called with the current user.
TimerTick ==
    /\ page = "open"
    /\ tickListeners < MaxTicks
    /\ Len(tasks) + 1 <= MaxInFlight
    /\ tickListeners' = tickListeners + 1
    /\ tasks' = IF authUser # "" THEN Started(tasks, CallShowAnalyticsIfAdmin)
                ELSE tasks
    /\ console' = Quiet
    /\ UNCHANGED <<chat, now, store, profile, authUser, page, dashboard, charts,
                   confMatrix, rocPairs, analyticsCard, analytics,
                   submits, authEvents, faults>>

Next ==
    \/ Submit
    \/ SignedIn
    \/ SignedOut
    \/ TimerTick
    \/ \E i \in TaskIds : DiseaseResolved(i)
    \/ \E i \in TaskIds : OutcomeResolved(i)
    \/ \E i \in TaskIds : AddResolved(i)
    \/ \E i \in TaskIds : LogMetricsResolved(i)
    \/ \E i \in TaskIds : RefreshStatsResolved(i)
    \/ \E i \in TaskIds : FeatureImportanceResolved(i)
    \/ \E i \in TaskIds : MetricsQueryResolved(i)
    \/ \E i \in TaskIds : RocResolved(i)
    \/ \E i \in TaskIds : ConfMatrixResolved(i)
    \/ \E i \in TaskIds : RoleLookupResolved(i)
    \/ \E i \in TaskIds : AnalyticsQueryResolved(i)

Spec == Init /\ [][Next]_vars

\* ===================================================================
\* The pipeline, one operation at a time
\* ===================================================================
\* The same operations run to completion one after the other, with no other
\* handler in between and every call answered: a submission stores its
\* record; refreshStats, loadAnalyticsCharts and
\* generateModelMetricsFromRecords each read the window and render.  The
\* prediction service answers with any body of the sets below, the write may
\* still be unacknowledged when a window is read, and the clock moves on
\* between the operations.
MaxRecords    == 2   \* submissions in one run of the pipeline
MaxClockTicks == 1   \* clock ticks in one run of the pipeline
MaxRenders    == 2   \* renders of one view in one run of the pipeline

\* What the two prediction calls of one submission are answered with: two
\* results, the outcome probability at the threshold, an error body in place
\* of either result, and a probability outside [0,1].
PipelineAnswers ==
    { <<DiseaseOk("Flu", 80), OutcomeOk("High Risk", 70)>>,
      <<DiseaseOk("Malaria", 60), OutcomeOk("Low Risk", 50)>>,
      <<DiseaseOk("Flu", 80), OutcomeError>>,
      <<DiseaseError, OutcomeOk("High Risk", 120)>> }

\* The page is loaded on the last tick of a day, no earlier than the latest
\* record of the collection.
LoadTime(s) == DayLength * (Len(s) \div DayLength + 1) - 1

\* The collection as it was when the page was loaded.
AtLoad == SubSeq(store, 1, Len(store) - submits)

PipelineInit ==
    /\ store \in {<<>>, EarlierStore(MinLabeled, 0)}
    /\ profile = "admin"
    /\ authUser = User
    /\ page = "open"
    /\ tickListeners = 0
    /\ tasks = <<>>
    /\ dashboard = NotPainted
    /\ charts = [v \in Views |-> NoChart]
    /\ confMatrix = 0
    /\ rocPairs = 0
    /\ analyticsCard = "block"
    /\ analytics = AnalyticsNotPainted
    /\ submits = 0
    /\ authEvents = 0
    /\ faults = 0
    /\ console = Quiet
    /\ now = LoadTime(store)
    /\ chat = NoChat

\* The submit handler from the form to the add: both calls answered, the
\* record written with the time of the write.  acked is whether the server
\* has acknowledged the write by the time the windows below are read.
Ingest ==
    /\ submits < MaxRecords
    /\ \E a \in PipelineAnswers, acked \in BOOLEAN :
          store' = Append(store,
                      [NewRecord(Payload, a[1], a[2], now, authUser)
                          EXCEPT !.createdAt.pending = ~acked])
    /\ submits' = submits + 1
    /\ console' = Quiet
    /\ UNCHANGED <<chat, now, profile, authUser, page, tickListeners, tasks,
                   dashboard, charts, confMatrix, rocPairs, analyticsCard,
                   analytics, authEvents, faults>>

\* Time passes.
ClockTick ==
    /\ now < LoadTime(AtLoad) + MaxClockTicks
    /\ now' = now + 1
    /\ console' = Quiet
    /\ UNCHANGED <<chat, store, profile, authUser, page, tickListeners, tasks,
                   dashboard, charts, confMatrix, rocPairs, analyticsCard,
                   analytics, submits, authEvents, faults>>

\* refreshStats(), query answered.
AggregateDashboard ==
    /\ charts["diag"].created < MaxRenders
    /\ dashboard' = DashboardOf(Window(store, DashboardLimit), now)
    /\ charts' = [charts EXCEPT !["diag"] = ReplaceChart(@)]
    /\ console' = Quiet
    /\ UNCHANGED <<chat, now, store, profile, authUser, page, tickListeners, tasks,
                   confMatrix, rocPairs, analyticsCard, analytics, submits,
                   authEvents, faults>>

\* loadAnalyticsCharts(), query answered.
AggregateAnalytics ==
    /\ charts["topDx"].created < MaxRenders
    /\ analytics' = AnalyticsOf(Window(store, AnalyticsLimit), now)
    /\ charts' = [charts EXCEPT !["recordsTime"] = ReplaceChart(@),
                                !["topDx"] = ReplaceChart(@)]
    /\ console' = Quiet
    /\ UNCHANGED <<chat, now, store, profile, authUser, page, tickListeners, tasks,
                   dashboard, confMatrix, rocPairs, analyticsCard, submits,
                   authEvents, faults>>

\* generateModelMetricsFromRecords(), query and both posts answered.
ComputeMetrics ==
    /\ charts["roc"].created < MaxRenders
    /\ IF EnoughLabeled(Window(store, DashboardLimit))
       THEN /\ charts' = [charts EXCEPT !["roc"] = ReplaceChart(@)]
            /\ rocPairs' = NumPairs(Window(store, DashboardLimit))
            /\ confMatrix' = NumPairs(Window(store, DashboardLimit))
            /\ console' = Quiet
       ELSE /\ UNCHANGED <<charts, rocPairs, confMatrix>>
            /\ console' = Line("Not enough labeled records", Task("signin", "metricsQuery"))
    /\ UNCHANGED <<chat, now, store, profile, authUser, page, tickListeners, tasks,
                   dashboard, analyticsCard, analytics, submits, authEvents,
                   faults>>

PipelineNext ==
    \/ Ingest
    \/ ClockTick
    \/ AggregateDashboard
    \/ AggregateAnalytics
    \/ ComputeMetrics

PipelineSpec == PipelineInit /\ [][PipelineNext]_vars

\* ===================================================================
\* The submission, from the form to the requests
\* ===================================================================
\* The submit handler with the form as its input: what the inputs hold when
\* the form is submitted, the payload built from them, and the body of each
\* request posted.  An input's value is the string typed into it, kept as
\* its sequence of digits; <<>> is the empty string of an input left blank.
RECURSIVE Number(_)
\* Number(string): the number the digits write, 0 for the empty string
Number(digits) ==
    IF Len(digits) = 0 THEN 0
    ELSE 10 * Number(SubSeq(digits, 1, Len(digits) - 1)) + digits[Len(digits)]

\* The same without the default: Number(value).
NumberOr_NoDefault(value, default) == Number(value)

\* Number(value || default): the empty string is falsy
NumberOr(value, default) ==
    IF Len(value) = 0 THEN default ELSE Number(value)

\* checked ? 'Yes' : 'No'
YesNo(checked) == IF checked THEN "Yes" ELSE "No"

\* The forms submitted: each numeric input blank or filled in, each symptom
\* box unchecked or checked.
Forms ==
    [pname : {"Ann"},
     age : {<<>>, <<4, 5>>}, temp : {<<>>, <<3, 8>>}, hr : {<<>>, <<7, 2>>},
     rr : {<<>>, <<1, 6>>}, spo2 : {<<>>, <<0>>, <<9, 7>>},
     fever : BOOLEAN, cough : BOOLEAN, fatigue : BOOLEAN, dbreath : BOOLEAN,
     gender : {"Female"}, bp_cat : {"Normal"}, chol : {"Normal"}]

\* const payload = { PatientName: ..., Age: ..., ... }
BuildPayload(form) ==
    [PatientName         |-> form.pname,
     Age                 |-> NumberOr(form.age, 0),
     Gender              |-> form.gender,
     Fever               |-> YesNo(form.fever),
     Cough               |-> YesNo(form.cough),
     Fatigue             |-> YesNo(form.fatigue),
     DifficultyBreathing |-> YesNo(form.dbreath),
     temp                |-> NumberOr(form.temp, 0),
     hr                  |-> NumberOr(form.hr, 0),
     rr                  |-> NumberOr(form.rr, 0),
     spo2                |-> NumberOr(form.spo2, 100),
     BloodPressure       |-> form.bp_cat,
     Cholesterol         |-> form.chol]

\* postJSON(url, body): the request sent
Request(url, body) == [url |-> url, body |-> body]

\* An invocation of the submit handler with its locals: the form as it was
\* read, the payload, the answers, and the requests it has posted so far.
FormTask(form) ==
    [kind |-> "submit", pc |-> "predictDisease", form |-> form,
     payload |-> BuildPayload(form),
     diseaseRes |-> NoDisease, outcomeRes |-> NoOutcome,
     posted |-> <<Request("/predict-disease", BuildPayload(form))>>]

SubmissionInit ==
    /\ PipelineInit
    /\ store = <<>>

\* predictForm 'submit': the payload is built from the form and posted to
\* /predict-disease.
FormSubmitted ==
    /\ submits < MaxSubmits
    /\ tasks = <<>>
    /\ \E form \in Forms : tasks' = <<FormTask(form)>>
    /\ submits' = submits + 1
    /\ console' = Quiet
    /\ UNCHANGED <<chat, now, store, profile, authUser, page, tickListeners,
                   dashboard, charts, confMatrix, rocPairs, analyticsCard,
                   analytics, authEvents, faults>>

\* await postJSON('/predict-disease') answered: the payload is posted to
\* /predict-outcome.
FormDiseaseAnswered ==
    /\ Len(tasks) = 1
    /\ tasks[1].pc = "predictDisease"
    /\ tasks' = <<[tasks[1] EXCEPT
                     !.pc = "predictOutcome",
                     !.diseaseRes = DiseaseOk("Flu", 80),
                     !.posted = Append(@, Request("/predict-outcome", tasks[1].payload))]>>
    /\ console' = Quiet
    /\ UNCHANGED <<chat, now, store, profile, authUser, page, tickListeners,
                   dashboard, charts, confMatrix, rocPairs, analyticsCard,
                   analytics, submits, authEvents, faults>>

\* await postJSON('/predict-outcome') answered: the record is passed to add.
FormOutcomeAnswered ==
    /\ Len(tasks) = 1
    /\ tasks[1].pc = "predictOutcome"
    /\ tasks' = <<[tasks[1] EXCEPT !.pc = "add",
                                   !.outcomeRes = OutcomeOk("High Risk", 70)]>>
    /\ console' = Quiet
    /\ UNCHANGED <<chat, now, store, profile, authUser, page, tickListeners,
                   dashboard, charts, confMatrix, rocPairs, analyticsCard,
                   analytics, submits, authEvents, faults>>

\* await add(...) answered: the record is stored with the payload as its
\* features, and the payload is posted to /log-metrics.
FormAddAnswered ==
    /\ Len(tasks) = 1
    /\ tasks[1].pc = "add"
    /\ store' = Append(store, NewRecord(tasks[1].payload, tasks[1].diseaseRes,
                                        tasks[1].outcomeRes, now, authUser))
    /\ tasks' = <<[tasks[1] EXCEPT
                     !.pc = "logMetrics",
                     !.posted = Append(@, Request("/log-metrics", tasks[1].payload))]>>
    /\ console' = Quiet
    /\ UNCHANGED <<chat, now, profile, authUser, page, tickListeners,
                   dashboard, charts, confMatrix, rocPairs, analyticsCard,
                   analytics, submits, authEvents, faults>>

SubmissionNext ==
    \/ FormSubmitted
    \/ FormDiseaseAnswered
    \/ FormOutcomeAnswered
    \/ FormAddAnswered

SubmissionSpec == SubmissionInit /\ [][SubmissionNext]_vars

\* ---------------------------------------------------------------------------
\* The chat modal.  openChatModal builds the modal once and registers
\* sendChatMessage on its Send button; every click runs sendChatMessage, and
\* nothing disables the button while a request is in flight.
\* ---------------------------------------------------------------------------

MaxMessages == 3

Thinking == "Thinking..."
FailedText == "Failed to get answer."

\* What the user may have typed into chatInput when Send is clicked.
InputValues == {"", "   ", "fever?", " dose? "}

\* String.prototype.trim on the values above.
Trim(value) ==
    CASE value = "   " -> ""
      [] value = " dose? " -> "dose?"
      [] OTHER -> value

\* The bodies /api/chat may answer a message with: a reply, or a body with
\* no reply field.
ChatBodies(msg) == {[reply |-> IF msg = "dose?" THEN "500 mg" ELSE "rest"],
                    [reply |-> ""]}

\* res.reply || res, as innerText shows it.
ReplyOf(res) == IF res.reply # "" THEN res.reply ELSE "[object Object]"

\* appendChat: one more div at the end of chatWindow.  `of` names the call
\* of sendChatMessage that created the element.
AppendChat(w, role, text, k) == Append(w, [role |-> role, text |-> text, of |-> k])

\* w.lastChild, removed when there is one.
RemoveLast(w) == IF Len(w) = 0 THEN w ELSE SubSeq(w, 1, Len(w) - 1)

ChatTask(k, msg) ==
    [kind |-> "chat", pc |-> "chat", of |-> k,
     posted |-> <<Request("/api/chat", [message |-> msg])>>]

ChatInit == PipelineInit /\ store = <<>>

OpenChatModal ==
    /\ chat' = IF chat.modal = "absent"
               THEN [chat EXCEPT !.modal = "shown"]
               ELSE chat
    /\ console' = Quiet
    /\ UNCHANGED <<now, store, profile, authUser, page, tickListeners, tasks,
                   dashboard, charts, confMatrix, rocPairs, analyticsCard,
                   analytics, submits, authEvents, faults>>

\* A click on Send: sendChatMessage up to its await.
SendChatMessage ==
    /\ chat.modal = "shown"
    /\ chat.sent < MaxMessages
    /\ \E value \in InputValues :
         LET msg == Trim(value)
             k == chat.sent + 1
         IN IF msg = ""
            THEN UNCHANGED <<chat, tasks>>
            ELSE /\ chat' = [chat EXCEPT
                               !.sent = k,
                               !.window = AppendChat(AppendChat(@, "user", msg, k),
                                                     "ai", Thinking, k)]
                 /\ tasks' = Append(tasks, ChatTask(k, msg))
    /\ console' = Quiet
    /\ UNCHANGED <<now, store, profile, authUser, page, tickListeners,
                   dashboard, charts, confMatrix, rocPairs, analyticsCard,
                   analytics, submits, authEvents, faults>>

\* The request of task i is answered: the last child goes, the reply comes.
ChatReplied(i) ==
    /\ i \in 1..Len(tasks)
    /\ tasks[i].pc = "chat"
    /\ \E res \in ChatBodies(tasks[i].posted[1].body.message) :
         chat' = [chat EXCEPT
                    !.window = AppendChat(RemoveLast(@), "ai", ReplyOf(res),
                                          tasks[i].of)]
    /\ tasks' = Without(tasks, i)
    /\ console' = Quiet
    /\ UNCHANGED <<now, store, profile, authUser, page, tickListeners,
                   dashboard, charts, confMatrix, rocPairs, analyticsCard,
                   analytics, submits, authEvents, faults>>

\* The request of task i is rejected: the catch block logs and appends.
ChatFailed(i) ==
    /\ i \in 1..Len(tasks)
    /\ tasks[i].pc = "chat"
    /\ chat' = [chat EXCEPT
                  !.window = AppendChat(@, "ai", FailedText, tasks[i].of)]
    /\ tasks' = Without(tasks, i)
    /\ console' = Line("Chat error", tasks[i])
    /\ UNCHANGED <<now, store, profile, authUser, page, tickListeners,
                   dashboard, charts, confMatrix, rocPairs, analyticsCard,
                   analytics, submits, authEvents, faults>>

ChatNext ==
    \/ OpenChatModal
    \/ SendChatMessage
    \/ \E i \in 1..MaxMessages : ChatReplied(i)
    \/ \E i \in 1..MaxMessages : ChatFailed(i)

ChatSpec == ChatInit /\ [][ChatNext]_vars

\* ===================================================================
\* Claims
\* ===================================================================
CountPc(ts, pc) == Cardinality({i \in 1..Len(ts) : ts[i].pc = pc})

\* The step ends or resumes task i, the others staying as they are.
StepOf(i) ==
    \/ tasks' = Without(tasks, i)
    \/ /\ Len(tasks') = Len(tasks)
       /\ tasks'[i] # tasks[i]
       /\ \A k \in TaskIds \ {i} : tasks'[k] = tasks[k]

\* ------------------------------------------------------------------ C1
\* C1: if either prediction call fails, by rejecting or by the service
\* answering with an error instead of a result, no record is added: the
\* record a submission has stored carries a result of both calls.
C1_NoRecordWithoutBothResults ==
    \A i \in TaskIds :
        tasks[i].rec # 0 =>
            /\ ~store[tasks[i].rec].prediction.diseaseRes.error
            /\ ~store[tasks[i].rec].prediction.outcomeRes.error

\* ------------------------------------------------------------------ C2
\* C2: the collection changes only by a submission that holds the answers of
\* both prediction calls appending its record, and the window answered to
\* the refresh of a submission holds the record that submission stored.
C2_RefreshReadsOwnRecord ==
    \A i \in TaskIds :
        (tasks[i].kind = "submit" /\ tasks[i].pc = "refreshStats") =>
            /\ tasks[i].rec # 0
            /\ \E k \in 1..Len(Docs(tasks[i], DashboardLimit)) :
                  Docs(tasks[i], DashboardLimit)[k] = store[tasks[i].rec]

C2_StoredAfterBothCalls ==
    store' # store =>
        \E i \in TaskIds :
            /\ tasks[i].pc = "add"
            /\ tasks'[i].pc = "logMetrics"
            /\ tasks'[i].rec = Len(store')
            /\ store' = Append(store, store'[Len(store')])
            /\ store'[Len(store')].prediction.diseaseRes = tasks[i].diseaseRes
            /\ store'[Len(store')].prediction.outcomeRes = tasks[i].outcomeRes
            /\ tasks[i].diseaseRes \in DiseaseBodies
            /\ tasks[i].outcomeRes \in OutcomeBodies

C2_PersistThenRefresh ==
    [](C2_RefreshReadsOwnRecord) /\ [][C2_StoredAfterBothCalls]_vars

\* A submission's refresh is in flight on a window that is full.
C2_Witness ==
    \E i \in TaskIds :
        /\ tasks[i].kind = "submit"
        /\ tasks[i].pc = "refreshStats"
        /\ tasks[i].asOf > DashboardLimit

\* ------------------------------------------------------------------ C3
\* A task is in a refresh cycle from the window query of refreshStats,
\* generateModelMetricsFromRecords or loadAnalyticsCharts to the last render.
InRefresh(t) ==
    t.pc \in {"refreshStats", "loadFeatureImportance", "metricsQuery",
              "rocData", "confusionMatrix", "loadAnalytics"}

\* C3: at most one refresh cycle is in progress at any time.
C3_AtMostOneRefresh ==
    Cardinality({i \in TaskIds : InRefresh(tasks[i])}) <= 1

\* ------------------------------------------------------------------ C4
\* C4: the number of registered auth-state listeners does not grow.
C4_ListenersDoNotGrow == AuthListeners <= ModuleListeners

\* ------------------------------------------------------------------ C5
\* C5: every chart view has at most one live chart instance.
C5_OneLiveChartPerView == \A v \in Views : charts[v].live <= 1

\* Every view has been rendered at least twice.
C5_Witness == \A v \in Views : charts[v].created >= 2 /\ charts[v].live = 1

\* ------------------------------------------------------------------ C6
\* C6: a store or network failure during a refresh (dashboard statistics,
\* admin analytics, model metrics) is caught and logged: no rejection of an
\* auth listener's or of showAnalyticsIfAdmin's invocation goes unhandled.
C6_RefreshFailuresAreCaught ==
    console.line = "Uncaught (in promise)" => console.task = "submit"

\* ------------------------------------------------------------------ C7
\* C7: the 1000-record query is in flight only for an admin, and nothing of
\* the admin views shows for anyone else.
C7_AdminOnly ==
    /\ \A i \in TaskIds : tasks[i].pc = "loadAnalytics" => profile = "admin"
    /\ profile # "admin" =>
          /\ analyticsCard # "block"
          /\ ~analytics.painted
          /\ charts["recordsTime"].created = 0
          /\ charts["topDx"].created = 0

\* The step resolves a role lookup.
GateStep == CountPc(tasks', "roleLookup") < CountPc(tasks, "roleLookup")

\* C7: a 1000-record query is issued only by the step that resolves a role
\* lookup, the lookup having answered admin; a lookup that failed, or that
\* answered another role or no document, hides the card, issues no query
\* and renders nothing.
C7_GateFirstFailClosed ==
    /\ CountPc(tasks', "loadAnalytics") > CountPc(tasks, "loadAnalytics") =>
          /\ GateStep
          /\ profile = "admin"
          /\ console' = Quiet
          /\ analyticsCard' = "block"
    /\ (GateStep /\ (profile # "admin" \/ console'.line = "Failed to read user role")) =>
          /\ analyticsCard' = "none"
          /\ CountPc(tasks', "loadAnalytics") = CountPc(tasks, "loadAnalytics")
          /\ analytics' = analytics
          /\ charts' = charts

C7_AdminGate == [](C7_AdminOnly) /\ [][C7_GateFirstFailClosed]_vars

\* An admin whose analytics were rendered has a later lookup fail: the card
\* is hidden.
C7_Witness ==
    /\ profile = "admin"
    /\ analytics.painted
    /\ console.line = "Failed to read user role"
    /\ analyticsCard = "none"

\* ------------------------------------------------------------------ C8
\* C8: a doctor never has a ROC or confusion-matrix request in flight.
C8_DoctorNeverTriggersMetrics ==
    profile = "doctor" =>
        \A i \in TaskIds : tasks[i].pc \notin {"rocData", "confusionMatrix"}

\* ------------------------------------------------------------------ C9
\* C9: a ROC or confusion-matrix request is in flight only on more than 10
\* labeled pairs.
C9_RequestedOnlyAboveTen ==
    \A i \in TaskIds :
        tasks[i].pc \in {"rocData", "confusionMatrix"} =>
            NumPairs(Docs(tasks[i], DashboardLimit)) > MinLabeled

\* C9: when the metrics query is answered, the run is skipped, with the
\* warning and without an error, exactly when the window yields 10 or fewer
\* labeled pairs; otherwise the ROC request is sent.
C9_SkipDecision ==
    \A i \in TaskIds :
        (tasks[i].pc = "metricsQuery" /\ StepOf(i)
            /\ console'.line # "Uncaught (in promise)") =>
           IF NumPairs(Docs(tasks[i], DashboardLimit)) <= MinLabeled
           THEN /\ tasks' = Without(tasks, i)
                /\ console'.line = "Not enough labeled records"
                /\ CountPc(tasks', "rocData") = CountPc(tasks, "rocData")
           ELSE /\ Len(tasks') = Len(tasks)
                /\ tasks'[i].pc = "rocData"
                /\ console' = Quiet

C9_SkippedExactlyUpToTen ==
    [](C9_RequestedOnlyAboveTen) /\ [][C9_SkipDecision]_vars

\* A run was skipped while the page shows a ROC and a matrix computed from
\* 11 pairs.
C9_Witness ==
    /\ console.line = "Not enough labeled records"
    /\ rocPairs = MinLabeled + 1
    /\ confMatrix = MinLabeled + 1

\* ----------------------------------------------------------------- C10
\* C10: after a metrics run that is skipped, no ROC chart and no confusion
\* matrix of an earlier run is displayed.  It is stated of the skips after
\* which the collection's window still yields 10 or fewer pairs, so that a
\* chart drawn meanwhile by an overlapping run on newer records is not
\* counted as stale.
C10_SkippedRunShowsNoMetrics ==
    (/\ console.line = "Not enough labeled records"
     /\ NumPairs(Window(store, DashboardLimit)) <= MinLabeled) =>
        /\ charts["roc"].live = 0
        /\ rocPairs = 0
        /\ confMatrix = 0

\* ----------------------------------------------------------------- C11
\* The sum of the values of a function with a finite domain.
RECURSIVE SumOf(_)
SumOf(f) ==
    IF DOMAIN f = {} THEN 0
    ELSE LET k == CHOOSE k \in DOMAIN f : TRUE
         IN  f[k] + SumOf([x \in DOMAIN f \ {k} |-> f[x]])

\* C11: in the dashboard distribution and in the admin top-diagnoses count
\* the counts over all labels sum to the number of records of the window;
\* so do the bars drawn for the top diagnoses when no label was cut off.
C11_CountsSumToWindow ==
    /\ dashboard.painted => SumOf(dashboard.dist) = dashboard.totalRecords
    /\ SumOf(Dist(Window(store, DashboardLimit)))
          = Len(Window(store, DashboardLimit))
    /\ SumOf(DxCount(Window(store, AnalyticsLimit)))
          = Len(Window(store, AnalyticsLimit))
    /\ (analytics.painted /\ Len(analytics.dxLabels) < TopShown) =>
          SumOf(analytics.dxValues) = analytics.records

C11_Witness ==
    /\ dashboard.painted
    /\ dashboard.totalRecords = MinLabeled + 2
    /\ analytics.painted
    /\ analytics.records = MinLabeled + 2
    /\ Len(analytics.dxLabels) = 3

\* ----------------------------------------------------------------- C12
\* The disease of the first entry of a record's stored top3, "Unknown" when
\* there is none.
TopDisease(r) ==
    IF Len(r.prediction.diseaseRes.top3) > 0
        THEN r.prediction.diseaseRes.top3[1].disease
    ELSE "Unknown"

\* C12: the distribution on the dashboard counts each record of the window
\* under the disease of the first entry of its top3, and under "Unknown"
\* only when that entry is absent.  (A dashboard painted with as many records
\* as the collection holds was painted from the whole collection.)
C12_DistributionCountsTopDisease ==
    (/\ dashboard.painted
     /\ dashboard.totalRecords = Len(store)
     /\ Len(store) <= DashboardLimit) =>
        \A i \in 1..Len(store) :
            /\ TopDisease(store[i]) \in DOMAIN dashboard.dist
            /\ dashboard.dist[TopDisease(store[i])]
                  = Cardinality({j \in 1..Len(store) :
                        TopDisease(store[j]) = TopDisease(store[i])})

\* ----------------------------------------------------------------- C13
\* The labels of the model in ascending lexical order.
Lexical == <<"Flu", "Malaria", "Unknown">>

LexRank(lab) == CHOOSE k \in 1..Len(Lexical) : Lexical[k] = lab

\* C13: the top diagnoses are in descending order of count, and labels with
\* equal counts are in ascending lexical order.
C13_TopKTiesAreLexical ==
    analytics.painted =>
        \A k \in 1..(Len(analytics.dxLabels) - 1) :
            \/ analytics.dxValues[k] > analytics.dxValues[k + 1]
            \/ /\ analytics.dxValues[k] = analytics.dxValues[k + 1]
               /\ LexRank(analytics.dxLabels[k]) < LexRank(analytics.dxLabels[k + 1])

\* ----------------------------------------------------------------- C14
\* The UTC day on which a record was written.
CreatedDay(r) == IsoDay(r.createdAt.seconds)

\* Analytics painted with as many records as the collection holds were
\* painted from the whole collection.
PaintedFromStore ==
    /\ analytics.painted
    /\ analytics.records = Len(store)
    /\ Len(store) <= AnalyticsLimit

\* C14: the time series has one entry for each UTC day on which a record of
\* the window was created and no other entry, in ascending order of day, each
\* count being the number of records created that day.
C14_TimeSeriesByCreationDay ==
    PaintedFromStore =>
        /\ Len(analytics.counts) = Len(analytics.days)
        /\ {analytics.days[k] : k \in 1..Len(analytics.days)}
              = {CreatedDay(store[i]) : i \in 1..Len(store)}
        /\ \A k \in 1..(Len(analytics.days) - 1) :
              analytics.days[k] < analytics.days[k + 1]
        /\ \A k \in 1..Len(analytics.days) :
              analytics.counts[k]
                  = Cardinality({i \in 1..Len(store) :
                        CreatedDay(store[i]) = analytics.days[k]})

\* ----------------------------------------------------------------- C15
\* The window with the records at k and k+1 exchanged.
Swapped(docs, k) ==
    [i \in 1..Len(docs) |->
        IF i = k THEN docs[k + 1] ELSE IF i = k + 1 THEN docs[k] ELSE docs[i]]

\* The table drawn for a window: the pairs are extracted, posted, and the
\* answer is rendered.
TableOf(docs) ==
    ConfMatrixTable(ConfusionMatrix(ExtractPairs(docs).y_true,
                                    ExtractPairs(docs).y_pred))

\* C15: the predicted class of a labeled pair is 1 exactly when its
\* probability is at least 0.5; the four cells of the table sum to the
\* number of labeled pairs; exchanging two records of the window leaves the
\* table as it is.
C15_ConfusionMatrix ==
    LET docs  == Window(store, DashboardLimit)
        pairs == ExtractPairs(docs)
        table == TableOf(docs)
    IN  /\ Len(pairs.y_pred) = Len(pairs.y_true)
        /\ Len(pairs.y_prob) = Len(pairs.y_true)
        /\ \A i \in 1..Len(pairs.y_true) :
              /\ pairs.y_pred[i] \in {0, 1}
              /\ pairs.y_true[i] \in {0, 1}
              /\ pairs.y_pred[i] = 1 <=> pairs.y_prob[i] >= 50
        /\ table[1][1] + table[1][2] + table[2][1] + table[2][2]
              = Len(pairs.y_true)
        /\ \A k \in 1..(Len(docs) - 1) : TableOf(Swapped(docs, k)) = table
        /\ confMatrix # 0 => confMatrix > MinLabeled

\* The table was drawn from twelve pairs, one of them at the threshold and
\* one of another class.
C15_Witness ==
    /\ confMatrix = MinLabeled + 2
    /\ Len(store) = MinLabeled + 2
    /\ \E i \in 1..Len(store) : store[i].prediction.outcomeRes.probability = Num(50)
    /\ TableOf(Window(store, DashboardLimit))[1][2] >= 1
    /\ TableOf(Window(store, DashboardLimit))[2][2] >= MinLabeled

\* ----------------------------------------------------------------- C16
\* A percent that stands for a number of [0,1].
InUnitRange(p) == 0 <= p /\ p <= 100

\* C16: no stored record holds an outcome probability or a disease
\* confidence outside [0,1], and neither do the average risk shown or the
\* pairs extracted for the metrics.
C16_ProbabilitiesInRange ==
    /\ \A i \in 1..Len(store) :
          /\ IsNumber(store[i].prediction.outcomeRes.probability) =>
                InUnitRange(store[i].prediction.outcomeRes.probability.v)
          /\ \A k \in 1..Len(store[i].prediction.diseaseRes.top3) :
                InUnitRange(store[i].prediction.diseaseRes.top3[k].confidence)
    /\ analytics.avgRisk <= 1000
    /\ \A k \in 1..NumPairs(Window(store, DashboardLimit)) :
          InUnitRange(ExtractPairs(Window(store, DashboardLimit)).y_prob[k])

\* ----------------------------------------------------------------- C17
\* C17: the step that ends the wait for /log-metrics, answered or failed,
\* leaves the store as it is with the submitted record in it, reports a
\* failure on the console only, and goes on to the refresh of the submission.
C17_LogFailureIsOnlyReported ==
    \A i \in TaskIds :
        (tasks[i].pc = "logMetrics" /\ StepOf(i)) =>
            /\ store' = store
            /\ tasks[i].rec \in 1..Len(store)
            /\ Len(tasks') = Len(tasks)
            /\ tasks'[i].kind = "submit"
            /\ tasks'[i].pc = "refreshStats"
            /\ tasks'[i].rec = tasks[i].rec
            /\ tasks'[i].asOf >= tasks[i].rec
            /\ console'.line \in {"", "metrics log failed"}
            /\ faults' > faults <=> console'.line = "metrics log failed"

C17_LogFailureNotFatal == [][C17_LogFailureIsOnlyReported]_vars

\* The log call of a submission has failed, and its refresh is on its way.
C17_Witness ==
    /\ console = Line("metrics log failed", Task("submit", "logMetrics"))
    /\ \E i \in TaskIds :
          /\ tasks[i].kind = "submit"
          /\ tasks[i].pc = "refreshStats"
          /\ tasks[i].rec = Len(store)
          /\ tasks[i].asOf = Len(store)

\* ----------------------------------------------------------------- C18
\* C18: computed again on the same window, the distribution, the top
\* diagnoses and the time series come out as they did before, whatever
\* happened in between.
C18_SameWindowSameOutput ==
    /\ (PaintedFromStore /\ store' = store) =>
          /\ analytics'.days = analytics.days
          /\ analytics'.counts = analytics.counts
          /\ analytics'.dxLabels = analytics.dxLabels
          /\ analytics'.dxValues = analytics.dxValues
    /\ (/\ dashboard.painted
        /\ dashboard.totalRecords = Len(store)
        /\ Len(store) <= DashboardLimit
        /\ store' = store) =>
          dashboard'.dist = dashboard.dist

C18_AggregationIsIdempotent == [][C18_SameWindowSameOutput]_vars

\* ----------------------------------------------------------------- C19
\* C19: every step leaves each stored record as it is; the store grows by
\* one record at a time, and only in the step in which a submission's add
\* is answered, the new record being the one that submission built.
C19_StoreStep ==
    /\ Len(store') \in {Len(store), Len(store) + 1}
    /\ \A k \in 1..Len(store) : store'[k] = store[k]
    /\ Len(store') = Len(store) + 1 =>
          \E i \in TaskIds :
              /\ tasks[i].kind = "submit"
              /\ tasks[i].pc = "add"
              /\ StepOf(i)
              /\ store'[Len(store')] = SubmittedRecord(tasks[i])

C19_AppendOnly == [][C19_StoreStep]_vars

\* A submission has stored its record, and the dashboard, the analytics and
\* the metrics have been drawn from windows that hold it.
C19_Witness ==
    /\ submits = 1
    /\ Len(store) = DashboardLimit + 1
    /\ dashboard.painted
    /\ dashboard.recordsList[1].at = Len(store)
    /\ analytics.painted
    /\ analytics.records = Len(store)
    /\ rocPairs # 0
    /\ confMatrix # 0

\* ----------------------------------------------------------------- C20
\* C20: a successful submission is followed by a run of the aggregation and
\* of the metrics computation: the handler of a submission that stored its
\* record, the user being an admin, ends only at the end of a metrics run.
C20_TriggerRunsWholeCycle ==
    \A i \in TaskIds :
        (/\ tasks[i].kind = "submit"
         /\ tasks[i].rec # 0
         /\ profile = "admin"
         /\ authUser # ""
         /\ tasks' = Without(tasks, i)) =>
            tasks[i].pc \in {"metricsQuery", "confusionMatrix"}

C20_EveryTriggerRunsWholeCycle == [][C20_TriggerRunsWholeCycle]_vars

\* ----------------------------------------------------------------- C21
\* The places of the window whose record has a numeric outcome probability,
\* in the order of the window.
NumericAt(docs) ==
    SortAsc({i \in 1..Len(docs) :
                docs[i].prediction.outcomeRes.probability.t = "number"})

\* C21: the extraction yields one pair for each record of the window whose
\* outcome probability is numeric, in the order of the window, and none for
\* any other record; the pair's probability is the stored value, its label
\* is 1 exactly when the stored risk is the high-risk value the service
\* answers with; y_true, y_prob and y_pred have the same length.
C21_PairsOfNumericRecords ==
    LET docs  == Window(store, DashboardLimit)
        at    == NumericAt(docs)
        pairs == ExtractPairs(docs)
    IN  /\ Len(pairs.y_true) = Len(at)
        /\ Len(pairs.y_prob) = Len(at)
        /\ Len(pairs.y_pred) = Len(at)
        /\ \A k \in 1..Len(at) :
              /\ pairs.y_prob[k] = docs[at[k]].prediction.outcomeRes.probability.v
              /\ pairs.y_true[k] = 1 <=>
                    docs[at[k]].prediction.outcomeRes.risk = "High Risk"
              /\ pairs.y_true[k] = 0 <=>
                    docs[at[k]].prediction.outcomeRes.risk # "High Risk"
        /\ rocPairs # 0 => rocPairs > MinLabeled

\* The metrics were drawn from a window of twelve records of which one has
\* no numeric probability and one is of the low-risk class.
C21_Witness ==
    /\ rocPairs = MinLabeled + 1
    /\ Len(store) = MinLabeled + 2
    /\ Len(NumericAt(Window(store, DashboardLimit))) = MinLabeled + 1
    /\ \E k \in 1..(MinLabeled + 1) :
          ExtractPairs(Window(store, DashboardLimit)).y_true[k] = 0
    /\ \E k \in 1..(MinLabeled + 1) :
          ExtractPairs(Window(store, DashboardLimit)).y_true[k] = 1

\* ----------------------------------------------------------------- C22
\* The requests the submit handler has posted to the prediction service.
PredictionRequests(t) ==
    SelectSeq(t.posted, LAMBDA r : r.url \in {"/predict-disease", "/predict-outcome"})

\* Every unchecked symptom box of the form is "No" in the body, and the
\* submission's requests to the prediction service carry one and the same
\* body.
SymptomsAndSameBody(t) ==
    /\ \A k \in 1..Len(PredictionRequests(t)) :
          LET body == PredictionRequests(t)[k].body
          IN  /\ ~t.form.fever => body.Fever = "No"
              /\ ~t.form.cough => body.Cough = "No"
              /\ ~t.form.fatigue => body.Fatigue = "No"
              /\ ~t.form.dbreath => body.DifficultyBreathing = "No"
    /\ \A j, k \in 1..Len(PredictionRequests(t)) :
          PredictionRequests(t)[j].body = PredictionRequests(t)[k].body

\* Every one of age, temp, hr and rr left blank in the form is 0 in the body.
BlankIsZero(t) ==
    \A k \in 1..Len(PredictionRequests(t)) :
        LET body == PredictionRequests(t)[k].body
        IN  /\ t.form.age = <<>> => body.Age = 0
            /\ t.form.temp = <<>> => body.temp = 0
            /\ t.form.hr = <<>> => body.hr = 0
            /\ t.form.rr = <<>> => body.rr = 0

\* C22 as stated: every missing numeric field, spo2 among them, is 0 in the
\* payload both prediction calls receive, and every unchecked symptom "No".
C22_MissingNumericIsZero ==
    \A i \in TaskIds :
        /\ SymptomsAndSameBody(tasks[i])
        /\ BlankIsZero(tasks[i])
        /\ \A k \in 1..Len(PredictionRequests(tasks[i])) :
              tasks[i].form.spo2 = <<>> =>
                  PredictionRequests(tasks[i])[k].body.spo2 = 0

\* C22 as amended: a missing age, temp, hr or rr is 0 and a missing spo2 is
\* 100 in the payload both prediction calls receive, every unchecked symptom
\* is "No", and the stored record's features are that payload.
C22_MissingNumericIsDefault ==
    /\ \A i \in TaskIds :
          /\ SymptomsAndSameBody(tasks[i])
          /\ BlankIsZero(tasks[i])
          /\ \A k \in 1..Len(PredictionRequests(tasks[i])) :
                LET body == PredictionRequests(tasks[i])[k].body
                IN  /\ tasks[i].form.spo2 = <<>> => body.spo2 = 100
                    /\ tasks[i].form.spo2 = <<0>> => body.spo2 = 0
                    /\ body = tasks[i].payload
          /\ tasks[i].pc = "logMetrics" =>
                store[Len(store)].features = tasks[i].posted[1].body
    /\ \A k \in 1..Len(store) :
          /\ store[k].features.spo2 \in {0, 97, 100}
          /\ store[k].age = store[k].features.Age

\* Both prediction calls of a submission have been posted from a form with
\* every numeric input blank and every symptom box unchecked.
C22_Witness ==
    \E i \in TaskIds :
        /\ Len(PredictionRequests(tasks[i])) = 2
        /\ tasks[i].form.age = <<>>
        /\ tasks[i].form.temp = <<>>
        /\ tasks[i].form.hr = <<>>
        /\ tasks[i].form.rr = <<>>
        /\ tasks[i].form.spo2 = <<>>
        /\ ~tasks[i].form.fever
        /\ ~tasks[i].form.cough
        /\ ~tasks[i].form.fatigue
        /\ ~tasks[i].form.dbreath
        /\ tasks[i].posted[2].body.spo2 = 100
        /\ tasks[i].posted[2].body.Age = 0

\* ----------------------------------------------------------------- C23
\* The createdAt of the newest record of the window the dashboard was
\* painted from, 0 when that window was empty.
NewestShown(d) ==
    IF Len(d.recordsList) = 0 THEN 0 ELSE d.recordsList[1].at

\* C23: the answer of an older query never takes the place of the view of a
\* newer one: a step that repaints the dashboard paints a window at least as
\* recent as the one shown.
C23_ViewNeverGoesBack ==
    (dashboard.painted /\ dashboard' # dashboard) =>
        /\ NewestShown(dashboard') >= NewestShown(dashboard)
        /\ dashboard'.totalRecords >= dashboard.totalRecords

C23_NewestRefreshWins == [][C23_ViewNeverGoesBack]_vars

\* ---------------------------------------------------------------------------
\* C24.  Once every chat request has settled, the chat window holds no
\* "Thinking..." placeholder, every user message is still shown, and every
\* message has exactly one answer bubble, its reply or the failure text:
\* no reply was removed in place of a placeholder.
\* ---------------------------------------------------------------------------

Bubbles(w, role, k) == {j \in 1..Len(w) : w[j].role = role /\ w[j].of = k}

Placeholders(w) == {j \in 1..Len(w) : w[j].role = "ai" /\ w[j].text = Thinking}

Answers(w, k) == {j \in Bubbles(w, "ai", k) : w[j].text # Thinking}

C24_SettledChatIsComplete ==
    (chat.sent > 0 /\ tasks = <<>>) =>
        /\ Placeholders(chat.window) = {}
        /\ \A k \in 1..chat.sent :
             /\ Cardinality(Bubbles(chat.window, "user", k)) = 1
             /\ Cardinality(Answers(chat.window, k)) = 1

====
